---- MODULE Spec2Model ----
(***************************************************************************)
(* Parallax controller of namalsk-forged-territories.                      *)
(*                                                                         *)
(* The repository holds several revisions of one small class.  The model   *)
(* keeps the revision under study in the variable rev:                     *)
(*   "S1"  src/scripts/parallax.js        2-62   mouse only, no guards     *)
(*   "U3b" src/unnamed/part_003         291-377  mouse only, base required *)
(*   "T2"  src/ts/parallax.ts           399-772  pixel-space, orientation  *)
(*   "T1"  src/ts/parallax.ts            32-281  normalized input, rAF     *)
(*   "U3a" src/unnamed/part_003          34-285  normalized, clamped       *)
(*   "D2"  src/docs/scripts/parallax.js 232-508  normalized, calibration   *)
(*   "T3"  src/ts/parallax.ts           796-873  mouse only, no debounce   *)
(* and, beside them, the class of another design:                          *)
(*   "S2"  src/scripts/parallax.js       68-123  stacking order, no clamp   *)
(*                                                                         *)
(* Numbers are JavaScript numbers: exact rationals plus NaN and the two    *)
(* infinities (rounding of binary floating point is not modelled).         *)
(***************************************************************************)
EXTENDS Integers, Sequences, FiniteSets

(***************************************************************************)
(* JavaScript numbers                                                      *)
(***************************************************************************)
Abs(i) == IF i < 0 THEN -i ELSE i

Sgn(i) == IF i < 0 THEN -1 ELSE IF i > 0 THEN 1 ELSE 0

RECURSIVE GCD(_, _)
GCD(a, b) == IF b = 0 THEN a ELSE GCD(b, a % b)

NaN == [k |-> "nan", n |-> 0, d |-> 1]

Inf(s) == [k |-> "inf", n |-> s, d |-> 1]

\* the rational n/d (d > 0) in lowest terms
Fin(n, d) ==
    LET g == GCD(Abs(n), d)
    IN  [k |-> "fin", n |-> n \div g, d |-> d \div g]

Num(i) == Fin(i, 1)

\* a value JavaScript holds where a number is expected but none was given
Null == [k |-> "null", n |-> 0, d |-> 1]

Undefined == [k |-> "undef", n |-> 0, d |-> 1]

\* the transform of an element nothing has written yet
Unset == [k |-> "unset", n |-> 0, d |-> 1]

IsNum(a) == a.k \in {"fin", "inf", "nan"}

JNeg(a) == IF a.k = "nan" THEN NaN ELSE [a EXCEPT !.n = -a.n]

JMul(a, b) ==
    IF a.k = "nan" \/ b.k = "nan" THEN NaN
    ELSE IF a.k = "inf" \/ b.k = "inf"
         THEN IF Sgn(a.n) * Sgn(b.n) = 0 THEN NaN
              ELSE Inf(Sgn(a.n) * Sgn(b.n))
    ELSE Fin(a.n * b.n, a.d * b.d)

\* a zero divisor is +0: every divisor of the program is a half box size,
\* a viewport ratio or a configured constant
JDiv(a, b) ==
    IF a.k = "nan" \/ b.k = "nan" THEN NaN
    ELSE IF b.k = "inf"
         THEN IF a.k = "inf" THEN NaN ELSE Fin(0, 1)
    ELSE IF b.n = 0
         THEN IF a.n = 0 THEN NaN ELSE Inf(Sgn(a.n))
    ELSE IF a.k = "inf" THEN Inf(Sgn(a.n) * Sgn(b.n))
    ELSE Fin(a.n * b.d * Sgn(b.n), a.d * Abs(b.n))

JSub(a, b) ==
    IF a.k = "nan" \/ b.k = "nan" THEN NaN
    ELSE IF a.k = "inf"
         THEN IF b.k = "inf" /\ b.n = a.n THEN NaN ELSE a
    ELSE IF b.k = "inf" THEN Inf(-b.n)
    ELSE Fin(a.n * b.d - b.n * a.d, a.d * b.d)

\* a < b; false when either is NaN
JLt(a, b) ==
    IF a.k = "nan" \/ b.k = "nan" THEN FALSE
    ELSE IF a.k = "inf" THEN a.n < 0 /\ ~(b.k = "inf" /\ b.n < 0)
    ELSE IF b.k = "inf" THEN b.n > 0
    ELSE a.n * b.d < b.n * a.d

JLe(a, b) == a.k # "nan" /\ b.k # "nan" /\ ~JLt(b, a)

JAbs(a) == IF a.k = "nan" THEN NaN ELSE [a EXCEPT !.n = Abs(a.n)]

\* Math.max and Math.min: NaN when either argument is NaN
MathMax(a, b) ==
    IF a.k = "nan" \/ b.k = "nan" THEN NaN ELSE IF JLt(a, b) THEN b ELSE a

MathMin(a, b) ==
    IF a.k = "nan" \/ b.k = "nan" THEN NaN ELSE IF JLt(b, a) THEN b ELSE a

\* x ?? y
Coalesce(x, y) == IF x.k \in {"null", "undef"} THEN y ELSE x

\* x || y on numbers: 0 and NaN are falsy
OrElse(x, y) ==
    IF x.k \in {"null", "undef", "nan"} \/ (x.k = "fin" /\ x.n = 0) THEN y ELSE x

(***************************************************************************)
(* The host page, the platform and the caller's options                    *)
(***************************************************************************)
\* text of an attribute; "absent" when the element does not carry it
AttrTexts == {"absent", "0", "0.5", "1", "-1", "20", "-5", "20px", "abc"}

\* parseFloat: the leading number of the text, NaN when there is none
parseFloat(s) ==
    CASE s = "0"    -> Num(0)
      [] s = "0.5"  -> Fin(1, 2)
      [] s = "1"    -> Num(1)
      [] s = "-1"   -> Num(-1)
      [] s = "20"   -> Num(20)
      [] s = "50"   -> Num(50)
      [] s = "-5"   -> Num(-5)
      [] s = "20px" -> Num(20)
      [] OTHER      -> NaN

\* getAttribute(name) ?? '0'
attrOrZero(s) == IF s = "absent" THEN "0" ELSE s

\* dataset['maxRange'] || "50"
attrOrFifty(s) == IF s = "absent" THEN "50" ELSE s

\* an element of the container: its depth and max-range attributes (under
\* the names the revision reads them by), the base-dimensions marker, the
\* gyroscope-trigger marker
Elem(d, r, b, t) == [depth |-> d, range |-> r, base |-> b, trig |-> t, id |-> ""]

Plain == Elem("absent", "absent", FALSE, FALSE)

Button == Elem("absent", "absent", FALSE, TRUE)

\* the empty div findBaseElement creates
FallbackDiv == [Plain EXCEPT !.id = "layer-01"]

Page(c, ks) == [container |-> c, kids |-> ks]

NoContainer == Page(FALSE, << >>)

EmptyPage == Page(TRUE, << >>)

PlainPage == Page(TRUE, <<Plain>>)

ScenarioPage == Page(TRUE, <<Elem("0.5", "20", TRUE, FALSE)>>)

MonoPage ==
    Page(TRUE, <<Elem("0", "20", FALSE, FALSE), Elem("0.5", "20", TRUE, FALSE),
                 Elem("1", "20", FALSE, FALSE)>>)

OpposePage == Page(TRUE, <<Elem("-1", "20", FALSE, FALSE), Elem("0.5", "20", TRUE, FALSE)>>)

StillPage == Page(TRUE, <<Elem("0", "-5", FALSE, FALSE), Elem("0", "20", TRUE, FALSE)>>)

OddPage == Page(TRUE, <<Elem("abc", "20px", FALSE, FALSE), Elem("1", "absent", FALSE, FALSE)>>)

ButtonPage == Page(TRUE, <<Elem("0.5", "20", TRUE, FALSE), Button>>)

LayerPages == {ScenarioPage, MonoPage, OpposePage, StillPage, OddPage}

Pages == LayerPages \cup {NoContainer, EmptyPage, PlainPage, ButtonPage}

\* "perm": DeviceOrientationEvent.requestPermission exists; "plain": the
\* window has ondeviceorientation and ondevicemotion; "none": neither
Platforms == {"perm", "plain", "none"}

Revs == {"S1", "U3b", "T2", "T1", "U3a", "D2"}

\* the caller's options object (containerId apart)
Opts(sf, gm, se, md) ==
    [smoothingFactor |-> sf, gyroEffectModifier |-> gm, sensitivity |-> se,
     mouseDebounce |-> md]

NoOpts == Opts(Undefined, Undefined, Undefined, Undefined)

CustomOpts == Opts(Fin(1, 2), Num(20), Num(30), Num(4))

Box(w, h) == [w |-> w, h |-> h]

(***************************************************************************)
(* State                                                                   *)
(***************************************************************************)
VARIABLES
    rev,        \* the revision under study
    status,     \* "new" before construction, then "running" or "thrown"
    err,        \* what the constructor threw
    page,       \* the document: the container and its elements
    platform,   \* sensor support of the browser
    viewport,   \* window.innerWidth, window.innerHeight
    baseSize,   \* the box the page's layout gives the base element
    callerOpts, \* the options object the caller passed
    options,    \* this.options
    layers,     \* this.layers: element index, cached depth and maxRange
    baseEl,     \* this.baseElement: index in page.kids, -1 a detached div, 0 unset
    contStyle,  \* the container's style.width and style.height
    transform,  \* per element of the container, the translate() written last
    zIndex,     \* per element of the container, its style.zIndex once written
    inputX, inputY,
    cal,        \* calibrationFlag, calibrationX, calibrationY
    timers,     \* pending setTimeout callbacks, with the ms left
    raf,        \* callbacks queued by requestAnimationFrame
    batch,      \* callbacks of the frame in progress still to run
    lis,        \* registered event listeners and the permission flow
    observed,   \* the box of the base element the resize observer reported last
    con,        \* console output
    budget,     \* events the environment may still deliver
    ticks,      \* single milliseconds the clock may still advance by
    hist        \* history of the run, read only by the properties

vars == <<rev, status, err, page, platform, viewport, baseSize, callerOpts,
          options, layers, baseEl, contStyle, transform, zIndex, inputX, inputY,
          cal, timers, raf, batch, lis, observed, con, budget, ticks, hist>>

(***************************************************************************)
(* Program constants                                                       *)
(***************************************************************************)
\* the debounce delay of mouse moves, ms
MouseDelay == 6

calibrationThreshold == 100

calibrationDelay == 500

supportDelay == 500

\* smoothingFactor: 0.13
DefaultSmoothing == Fin(13, 100)

\* gyroEffectModifier: 10
DefaultGyro == Num(10)

(***************************************************************************)
(* Construction                                                            *)
(***************************************************************************)
\* window.innerWidth / window.innerHeight * 10
computeSensitivity == JMul(JDiv(Num(viewport.w), Num(viewport.h)), Num(10))

\* { ...defaults, ...options }: a key the caller gave wins over the default
mergeDefaults(o) ==
    [smoothingFactor    |-> IF o.smoothingFactor.k = "undef"
                            THEN DefaultSmoothing ELSE o.smoothingFactor,
     gyroEffectModifier |-> IF o.gyroEffectModifier.k = "undef"
                            THEN DefaultGyro ELSE o.gyroEffectModifier,
     sensitivity        |-> o.sensitivity,
     mouseDebounce      |-> IF rev \in {"U3a", "D2"} /\ o.mouseDebounce.k = "undef"
                            THEN Num(MouseDelay) ELSE o.mouseDebounce]

\* { ...options, smoothingFactor: 0.13 }: the literal wins over the caller's key
overrideSmoothing(o) == [o EXCEPT !.smoothingFactor = DefaultSmoothing]

\* the caller's object after "options.sensitivity = this.computeSensitivity()"
defaultSensitivity(o) ==
    IF rev \in {"T1", "U3a", "D2"} /\ o.sensitivity.k = "undef"
    THEN [o EXCEPT !.sensitivity = computeSensitivity]
    ELSE o

resolveOptions(o) ==
    IF rev \in {"T1", "U3a", "D2"} THEN mergeDefaults(defaultSensitivity(o))
    ELSE IF rev \in {"T2", "T3"} THEN overrideSmoothing(o)
    ELSE NoOpts

\* querySelectorAll('[data-depth]') and, where the revision caches them, the
\* parsed depth and maxRange of each element
initializeLayers(kids) ==
    LET cached == rev \in {"T2", "T1", "U3a", "D2"}
        F[i \in 0..Len(kids)] ==
            IF i = 0 THEN << >>
            ELSE IF kids[i].depth = "absent" THEN F[i - 1]
            ELSE Append(F[i - 1],
                   [el       |-> i,
                    depth    |-> IF cached THEN parseFloat(attrOrZero(kids[i].depth))
                                 ELSE Undefined,
                    maxRange |-> IF cached THEN parseFloat(attrOrZero(kids[i].range))
                                 ELSE Undefined])
    IN  F[Len(kids)]

\* index of the first element carrying the base-dimensions marker, 0 if none
markedBase(kids) ==
    IF \E i \in 1..Len(kids) : kids[i].base
    THEN CHOOSE i \in 1..Len(kids) :
             kids[i].base /\ \A j \in 1..(i - 1) : ~kids[j].base
    ELSE 0

NoBaseMsg == "error: base element not found, defaulting to first child"

NoChildMsg == "warn: no children, creating an empty div"

\* the base element, the container's elements afterwards, what was logged,
\* and whether the lookup threw
findBaseElement(kids) ==
    LET m == markedBase(kids)
    IN  IF m # 0 THEN [base |-> m, kids |-> kids, con |-> << >>, throws |-> FALSE]
        ELSE IF rev = "U3b"
             THEN [base |-> 0, kids |-> kids, con |-> << >>, throws |-> TRUE]
        ELSE IF Len(kids) > 0
             THEN [base |-> 1, kids |-> kids, con |-> <<NoBaseMsg>>, throws |-> FALSE]
        ELSE IF rev = "S1"
             THEN [base |-> -1, kids |-> kids, con |-> <<NoBaseMsg, NoChildMsg>>,
                   throws |-> FALSE]
        ELSE [base |-> 1, kids |-> <<FallbackDiv>>, con |-> <<NoBaseMsg, NoChildMsg>>,
              throws |-> FALSE]

\* offsetWidth and offsetHeight of the base element: a detached element has
\* no box, an element of the document has the box the page lays out
offsetBox(el) == IF el = -1 THEN Box(0, 0) ELSE baseSize

(***************************************************************************)
(* Listeners, timers and the permission flow                               *)
(***************************************************************************)
NoTimer == -1

NoMouseTimer == [left |-> NoTimer, x |-> 0, y |-> 0]

NoTimers == [mouse |-> NoMouseTimer, device |-> NoTimer, calib |-> NoTimer,
             support |-> << >>, resize |-> NoTimer]

\* mouse: the target of the mousemove listener; trigClick: the trigger
\* element has a click listener; docGesture: permission closures registered
\* on the document's click and touchend; docDebounced: the debounced attach
\* function is registered there; orient, motion: handlers registered on the
\* window; pending: requestPermission promises not yet settled; calls:
\* requestPermission calls so far; observing: the resize observer is on
NoListeners == [mouse |-> "none", trigClick |-> FALSE, docGesture |-> 0,
                docDebounced |-> FALSE, orient |-> 0, motion |-> 0,
                pending |-> 0, calls |-> 0, observing |-> FALSE]

DeniedMsg == "error: permission for device orientation was denied"

RejectedMsg == "error: requesting permission for device orientation failed"

UnsupportedMsg == "error: device orientation is not supported"

\* addOrientationAndMotionListeners / addOrientationListener
addListeners(st) ==
    IF rev = "T2" THEN [st EXCEPT !.lis.orient = @ + 1]
    ELSE [st EXCEPT !.lis.orient = @ + 1, !.lis.motion = @ + 1]

\* the listeners once requestPermission or the platform allows them: D2
\* delays them by supportDelay
grantListeners(st) ==
    IF rev = "D2" THEN [st EXCEPT !.timers.support = Append(@, supportDelay)]
    ELSE addListeners(st)

\* DeviceOrientationEvent.requestPermission() is called and awaited
requestPermission(st) ==
    [st EXCEPT !.lis.pending = @ + 1, !.lis.calls = @ + 1]

\* _attachDeviceOrientationAndMotionListener / _attachDeviceOrientationListener
\* up to its first await; st holds lis, con and timers.  The removal of
\* the gesture listeners names the unbound method, which no revision
\* registers, and so removes nothing.
attachDeviceOrientationListener(st) ==
    IF platform = "perm"
    THEN IF rev = "T2" THEN [st EXCEPT !.lis.docGesture = @ + 1]
         ELSE requestPermission(st)
    ELSE IF platform = "plain" THEN grantListeners(st)
    ELSE [st EXCEPT !.con = Append(@, UnsupportedMsg)]

\* a continuation that takes every answer for consent
permissionSettledGrants(st, outcome) ==
    grantListeners([st EXCEPT !.lis.pending = @ - 1])

\* the rest of the async function once the promise settles
permissionSettled(st, outcome) ==
    LET s1 == [st EXCEPT !.lis.pending = @ - 1]
    IN  IF outcome = "granted" THEN grantListeners(s1)
        ELSE IF outcome = "rejected" THEN [s1 EXCEPT !.con = Append(@, RejectedMsg)]
        ELSE [s1 EXCEPT !.con = Append(@, DeniedMsg)]

\* attachEvents: the listeners construction registers and, where there is
\* no trigger element, the first attachment attempt
hasTrigger(kids) == \E i \in 1..Len(kids) : kids[i].trig

attachEvents(st, kids) ==
    LET s1 == [st EXCEPT !.lis.mouse =
                   IF rev \in {"U3a", "D2"} THEN "container" ELSE "document"]
    IN  CASE rev \in {"S1", "U3b", "U3a", "T3"} -> s1
          [] rev = "T1" ->
                IF hasTrigger(kids) THEN [s1 EXCEPT !.lis.trigClick = TRUE]
                ELSE IF platform # "perm" THEN attachDeviceOrientationListener(s1)
                ELSE s1
          [] rev = "T2" ->
                IF hasTrigger(kids) THEN [s1 EXCEPT !.lis.trigClick = TRUE]
                ELSE attachDeviceOrientationListener(s1)
          [] rev = "D2" ->
                IF hasTrigger(kids) THEN [s1 EXCEPT !.lis.trigClick = TRUE]
                ELSE [s1 EXCEPT !.lis.docDebounced = TRUE]

\* queueCalibration(delay)
queueCalibration(st, delay) == [st EXCEPT !.timers.calib = delay]

\* initializeParallax after the container has been sized
initializeParallax(st, kids) ==
    LET s1 == attachEvents(st, kids)
        s2 == [s1 EXCEPT !.lis.observing = TRUE]
    IN  IF rev = "D2" THEN queueCalibration(s2, calibrationDelay) ELSE s2

Translate(x, y) == [x |-> x, y |-> y]

NoTransform == Translate(Unset, Unset)

NoCal == [flag |-> TRUE, x |-> Num(0), y |-> Num(0)]

\* the history after a step of the given kind that is no sensor sample and
\* no settled promise
Step(kind) == [hist EXCEPT !.step = kind, !.sample = "none", !.outcome = "none"]

Construct ==
    /\ status = "new"
    /\ rev \in Revs \cup {"T3"}
    /\ callerOpts' = defaultSensitivity(callerOpts)
    /\ options' = resolveOptions(callerOpts)
    /\ hist' = Step("construct")
    /\ UNCHANGED <<zIndex, observed, rev, platform, viewport, baseSize, inputX, inputY,
                   cal, raf, batch, budget, ticks>>
    /\ IF ~page.container
       THEN /\ status' = "thrown"
            /\ err' = IF rev \in {"S1", "U3b"} THEN "TypeError" ELSE "ElementNotFound"
            /\ UNCHANGED <<page, layers, baseEl, contStyle, timers, lis, con, transform>>
       ELSE LET fb == findBaseElement(page.kids)
                st == initializeParallax(
                          [lis |-> lis, con |-> con \o fb.con, timers |-> timers],
                          fb.kids)
            IN  /\ layers' = initializeLayers(page.kids)
                /\ IF fb.throws
                   THEN /\ status' = "thrown"
                        /\ err' = "BaseNotFound"
                        /\ UNCHANGED <<page, baseEl, contStyle, timers, lis, con,
                                        transform>>
                   ELSE /\ status' = "running"
                        /\ err' = "none"
                        /\ page' = [page EXCEPT !.kids = fb.kids]
                        /\ transform' = [i \in 1..Len(fb.kids) |-> NoTransform]
                        /\ baseEl' = fb.base
                        /\ contStyle' = offsetBox(fb.base)
                        /\ lis' = st.lis
                        /\ con' = st.con
                        /\ timers' = st.timers

\* querySelectorAll(':scope > *'): every child is a layer of S2
childLayers(kids) ==
    [i \in 1..Len(kids) |-> [el |-> i, depth |-> Undefined, maxRange |-> Undefined]]

\* the comparator of assignZIndex puts a before b when depthB - depthA is
\* negative; the sort keeps the document order of elements it finds equal
sortsBefore(kids, a, b) ==
    LET depthA == parseFloat(attrOrZero(kids[a].depth))
        depthB == parseFloat(attrOrZero(kids[b].depth))
    IN  JLt(depthB, depthA) \/ (~JLt(depthA, depthB) /\ a < b)

\* assignZIndex: the element at index i of the sorted array gets the
\* z-index length - i
assignZIndex(kids) ==
    [i \in 1..Len(kids) |->
        Len(kids) - Cardinality({j \in 1..Len(kids) : sortsBefore(kids, j, i)})]

\* updateContainerHeight: the computed height of the canvas element, where
\* there is one, becomes the container's style.height
updateContainerHeight(canvas) ==
    IF canvas = 0 THEN contStyle ELSE [contStyle EXCEPT !.h = baseSize.h]

\* the constructor of S2; the canvas is the element the page marks
ConstructStack ==
    /\ status = "new"
    /\ rev = "S2"
    /\ hist' = Step("construct")
    /\ UNCHANGED <<observed, rev, page, platform, viewport, baseSize, callerOpts,
                   options, inputX, inputY, cal, timers, raf, batch, con,
                   budget, ticks>>
    /\ IF ~page.container
       THEN /\ status' = "thrown"
            /\ err' = "ElementNotFound"
            /\ UNCHANGED <<layers, baseEl, contStyle, transform, zIndex, lis>>
       ELSE /\ status' = "running"
            /\ err' = "none"
            /\ layers' = childLayers(page.kids)
            /\ baseEl' = markedBase(page.kids)
            /\ zIndex' = assignZIndex(page.kids)
            /\ contStyle' = updateContainerHeight(markedBase(page.kids))
            /\ transform' = [i \in 1..Len(page.kids) |-> NoTransform]
            /\ lis' = [lis EXCEPT !.mouse = "window"]

(***************************************************************************)
(* Input handlers and the transform applier                                *)
(***************************************************************************)
\* Math.min(Math.max(v, -maxRange), maxRange)
clamp(v, maxRange) == MathMin(MathMax(v, JNeg(maxRange)), maxRange)

isLayer(i) == \E k \in 1..Len(layers) : layers[k].el = i

\* the place in this.layers of the element i
layerOf(i) == CHOOSE k \in 1..Len(layers) : layers[k].el = i

\* a depth that weakens the deeper layer
depthInverted(l) ==
    JDiv(Num(1), IF rev \in {"S1", "U3b"} THEN parseFloat(page.kids[l.el].depth)
                 ELSE l.depth)

\* depth and maxRange of a layer: the cached property, or in S1, U3b, S2
\* and T3 the attribute parsed again on every event (T3: parseFloat(...) || 0)
depthOf(l) ==
    IF rev \in {"S1", "U3b"} THEN parseFloat(page.kids[l.el].depth)
    ELSE IF rev = "S2" THEN parseFloat(attrOrZero(page.kids[l.el].depth))
    ELSE IF rev = "T3" THEN OrElse(parseFloat(page.kids[l.el].depth), Num(0))
    ELSE l.depth

maxRangeOf(l) ==
    IF rev \in {"S1", "U3b"} THEN parseFloat(page.kids[l.el].range)
    ELSE IF rev = "S2" THEN parseFloat(attrOrFifty(page.kids[l.el].range))
    ELSE IF rev = "T3" THEN OrElse(parseFloat(page.kids[l.el].range), Num(0))
    ELSE l.maxRange

\* layer.style.transform = `translate(${x}px, ${y}px)`: the style keeps its
\* old value when the text is no valid transform, as with NaN or Infinity
assignTransform(old, new) ==
    IF new.x.k = "fin" /\ new.y.k = "fin" THEN new ELSE old

\* layers.forEach(layer => layer.style.transform = ...), t[k] being the
\* translation computed for the k-th layer
forEachLayer(t) ==
    [i \in DOMAIN transform |->
        IF isLayer(i) THEN assignTransform(transform[i], t[layerOf(i)])
        ELSE transform[i]]

\* offsetWidth / 2 and offsetHeight / 2 of the container (S1, U3b, T2, T1)
\* or of the base element (U3a, D2)
getCenterXY ==
    LET b == IF rev \in {"U3a", "D2"} THEN offsetBox(baseEl) ELSE contStyle
    IN  [x |-> Fin(b.w, 2), y |-> Fin(b.h, 2)]

\* the pointer's offset from the centre; the bounding rectangle starts at 0
pointerOffset(cx, cy) ==
    [x |-> JSub(Num(cx), getCenterXY.x), y |-> JSub(Num(cy), getCenterXY.y)]

\* the factor of the pixel-space mouse handler: this.options.smoothingFactor
\* in T2 and T3, the literal 0.13 in S1 and U3b
pixelSmoothing ==
    IF rev \in {"T2", "T3"} THEN options.smoothingFactor ELSE DefaultSmoothing

\* handleMouseMove of the pixel-space design: writes the transforms at once
handleMouseMovePixel(cx, cy) ==
    LET o == pointerOffset(cx, cy)
        fx(l) == clamp(JMul(JMul(o.x, depthOf(l)), pixelSmoothing), maxRangeOf(l))
        fy(l) == clamp(JMul(JMul(o.y, depthOf(l)), pixelSmoothing), maxRangeOf(l))
    IN  forEachLayer([k \in DOMAIN layers |-> Translate(fx(layers[k]), fy(layers[k]))])

\* handleMouseMove of S2: the pointer's place in the window, from -1 to 1,
\* times maxRange and depth, written at once and not clamped
handleMouseMoveWindow(cx, cy) ==
    LET xPercent == JMul(JSub(JDiv(Num(cx), Num(viewport.w)), Fin(1, 2)), Num(2))
        yPercent == JMul(JSub(JDiv(Num(cy), Num(viewport.h)), Fin(1, 2)), Num(2))
        fx(l) == JMul(JMul(xPercent, maxRangeOf(l)), depthOf(l))
        fy(l) == JMul(JMul(yPercent, maxRangeOf(l)), depthOf(l))
    IN  forEachLayer([k \in DOMAIN layers |-> Translate(fx(layers[k]), fy(layers[k]))])

\* a queued requestAnimationFrame callback: the source and its modifier
Callback(origin, m) == [origin |-> origin, m |-> m]

\* handleMouseMove of the normalized design: the new inputX, inputY and the
\* callback it queues
handleMouseMoveNorm(cx, cy) ==
    LET o == pointerOffset(cx, cy)
        c == getCenterXY
    IN  [x  |-> JDiv(o.x, c.x),
         y  |-> JDiv(o.y, c.y),
         cb |-> Callback("mouse",
                    IF rev = "T1" THEN Coalesce(options.smoothingFactor, Fin(1, 10))
                    ELSE options.smoothingFactor)]

\* applyCalibration(inputX, inputY) under the calibration c: the offset is
\* subtracted only when the input is further than calibrationThreshold from it
applyCalibration(c, ix, iy) ==
    [x |-> IF JLt(Num(calibrationThreshold), JAbs(JSub(ix, c.x)))
           THEN JSub(ix, c.x) ELSE ix,
     y |-> IF JLt(Num(calibrationThreshold), JAbs(JSub(iy, c.y)))
           THEN JSub(iy, c.y) ELSE iy]

\* the modifiers applyLayerTransformations is called with by a callback
callbackModifiers(cb) ==
    IF rev = "D2" /\ cb.origin = "gyro"
    THEN LET c == applyCalibration(cal, inputX, inputY)
         IN  [x |-> JMul(c.x, cb.m), y |-> JMul(c.y, cb.m)]
    ELSE [x |-> cb.m, y |-> cb.m]

\* the damping applyLayerTransformations applies by event origin
damping(origin) ==
    IF origin = "gyro" THEN Fin(1, 10)
    ELSE IF origin = "motion" THEN Fin(1, 20)
    ELSE Num(1)

\* a pass that neither scales by the centre nor clamps
applyLayerTransformationsFlat(mx, my, origin) ==
    forEachLayer([k \in DOMAIN layers |->
                     Translate(JMul(JMul(inputX, depthOf(layers[k])), mx),
                               JMul(JMul(inputY, depthOf(layers[k])), my))])

\* applyLayerTransformations: T1 writes input * depth * modifier as it is;
\* U3a and D2 scale by the damping and the centre and clamp to maxRange
applyLayerTransformations(mx, my, origin) ==
    LET c == getCenterXY
        modifierX == JMul(mx, damping(origin))
        modifierY == JMul(my, damping(origin))
        ux(l) == JMul(JMul(inputX, depthOf(l)), mx)
        uy(l) == JMul(JMul(inputY, depthOf(l)), my)
        kx(l) == clamp(JMul(JMul(JMul(inputX, depthOf(l)), modifierX), c.x), maxRangeOf(l))
        ky(l) == clamp(JMul(JMul(JMul(inputY, depthOf(l)), modifierY), c.y), maxRangeOf(l))
    IN  IF rev = "T1"
        THEN forEachLayer([k \in DOMAIN layers |-> Translate(ux(layers[k]), uy(layers[k]))])
        ELSE forEachLayer([k \in DOMAIN layers |-> Translate(kx(layers[k]), ky(layers[k]))])

\* what a sensor handler reads and writes: inputX, inputY, the calibration,
\* the queued callbacks and the transforms
Handled == [ix |-> inputX, iy |-> inputY, cal |-> cal, raf |-> raf, tr |-> transform]

\* this.options.sensitivity ?? 30
sensitivity == Coalesce(options.sensitivity, Num(30))

\* rotate(beta, gamma) of T1 and U3a
rotatePlain(h, beta, gamma) ==
    [h EXCEPT !.ix = JDiv(beta, sensitivity), !.iy = JDiv(gamma, sensitivity)]

\* a rotate that takes the anchor from the angles of the device and turns
\* the axes afterwards
rotateCalibratedDevice(h, beta, gamma) ==
    LET isPortrait == viewport.h > viewport.w
        rx == IF isPortrait THEN gamma ELSE beta
        ry == IF isPortrait THEN beta ELSE gamma
        c  == IF h.cal.flag THEN [flag |-> FALSE, x |-> beta, y |-> gamma] ELSE h.cal
        a  == applyCalibration(c, rx, ry)
    IN  [h EXCEPT !.cal = c,
                  !.ix = JDiv(a.x, sensitivity),
                  !.iy = JDiv(a.y, sensitivity)]

\* rotate(beta, gamma) of D2: the axes by screen orientation, the anchor
\* taken while the flag is set, calibration, then the division
rotateCalibrated(h, beta, gamma) ==
    LET isPortrait == viewport.h > viewport.w
        rx == IF isPortrait THEN gamma ELSE beta
        ry == IF isPortrait THEN beta ELSE gamma
        c  == IF h.cal.flag THEN [flag |-> FALSE, x |-> rx, y |-> ry] ELSE h.cal
        a  == applyCalibration(c, rx, ry)
    IN  [h EXCEPT !.cal = c,
                  !.ix = JDiv(a.x, sensitivity),
                  !.iy = JDiv(a.y, sensitivity)]

rotate(h, beta, gamma) ==
    IF beta.k = "null" \/ gamma.k = "null" THEN h
    ELSE IF rev = "D2" THEN rotateCalibrated(h, beta, gamma)
    ELSE rotatePlain(h, beta, gamma)

\* this.options.gyroEffectModifier ?? 10
gyroModifier == Coalesce(options.gyroEffectModifier, DefaultGyro)

\* handleDeviceOrientation of T2: writes the transforms at once
orientationPixel(h, beta, gamma) ==
    LET f  == JMul(OrElse(options.gyroEffectModifier, Num(10)),
                   OrElse(options.smoothingFactor, DefaultSmoothing))
        movementX == JMul(gamma, f)
        movementY == JMul(beta, f)
        fx(l) == clamp(JMul(movementX, depthOf(l)), maxRangeOf(l))
        fy(l) == clamp(JMul(movementY, depthOf(l)), maxRangeOf(l))
    IN  [h EXCEPT !.tr = forEachLayer([k \in DOMAIN layers |->
                                          Translate(fx(layers[k]), fy(layers[k]))])]

\* null where a number is expected counts as 0
Unnull(a) == IF a.k = "null" THEN Num(0) ELSE a

\* a handler that does not look for missing angles
handleDeviceOrientationUnguarded(h, beta, gamma) ==
    IF rev = "T2" THEN orientationPixel(h, Unnull(beta), Unnull(gamma))
    ELSE [rotate(h, Unnull(beta), Unnull(gamma))
          EXCEPT !.raf = Append(@, Callback("gyro", gyroModifier))]

handleDeviceOrientation(h, beta, gamma) ==
    IF beta.k = "null" \/ gamma.k = "null" THEN h
    ELSE IF rev = "T2" THEN orientationPixel(h, beta, gamma)
    ELSE [rotate(h, beta, gamma) EXCEPT !.raf = Append(@, Callback("gyro", gyroModifier))]

\* a devicemotion event: rotationRate, or none
Rate(beta, gamma) == [some |-> TRUE, beta |-> beta, gamma |-> gamma]

NoRate == [some |-> FALSE, beta |-> Null, gamma |-> Null]

\* a motion handler that stores the input and asks for no repaint
handleDeviceMotionSilent(h, rate) ==
    IF ~rate.some \/ rate.beta.k = "null" \/ rate.gamma.k = "null" THEN h
    ELSE IF rev = "D2" THEN rotate(h, rate.beta, rate.gamma)
    ELSE rotatePlain(h, rate.beta, rate.gamma)

handleDeviceMotion(h, rate) ==
    IF ~rate.some \/ rate.beta.k = "null" \/ rate.gamma.k = "null" THEN h
    ELSE [(IF rev = "D2" THEN rotate(h, rate.beta, rate.gamma)
           ELSE rotatePlain(h, rate.beta, rate.gamma))
          EXCEPT !.raf = Append(@, Callback("motion", gyroModifier))]

\* every registered handler of the event runs, in order of registration
RECURSIVE orientationListeners(_, _, _, _)
orientationListeners(n, h, beta, gamma) ==
    IF n = 0 THEN h
    ELSE orientationListeners(n - 1, handleDeviceOrientation(h, beta, gamma), beta, gamma)

RECURSIVE motionListeners(_, _, _)
motionListeners(n, h, rate) ==
    IF n = 0 THEN h ELSE motionListeners(n - 1, handleDeviceMotion(h, rate), rate)

(***************************************************************************)
(* Events of the page                                                      *)
(***************************************************************************)
\* deviceDebounce: 6
deviceDebounce == 6

\* setTimeout's delay for a number: its integer part, 0 for anything else
Millis(a) == IF a.k = "fin" /\ a.n > 0 THEN a.n \div a.d ELSE 0

\* the wait the mousemove listener was debounced with
mouseWait ==
    IF rev \in {"U3a", "D2"} THEN Millis(options.mouseDebounce) ELSE MouseDelay

Idle == status = "running" /\ batch = 0

\* a debounce that leaves a pending timer alone
debounceKeepsPending(t, cx, cy) ==
    IF t.left # NoTimer THEN t ELSE [left |-> mouseWait, x |-> cx, y |-> cy]

\* the debounced function is called while the timer t is pending or not:
\* clearTimeout(timeout); timeout = setTimeout(later, wait), with later
\* holding the arguments of this call
debounce(t, cx, cy) == [left |-> mouseWait, x |-> cx, y |-> cy]

\* a mousemove event at client position (cx, cy): S1, U3b and T3 handle it at
\* once, the others restart the debounce timer with the event.  A timer
\* that is due runs before an event of the same millisecond.
MouseMove(cx, cy) ==
    /\ Idle
    /\ timers.mouse.left # 0
    /\ budget.moves > 0
    /\ lis.mouse # "none"
    /\ lis.mouse = "container" => (cx <= contStyle.w /\ cy <= contStyle.h)
    /\ budget' = [budget EXCEPT !.moves = @ - 1]
    /\ UNCHANGED <<zIndex, observed, rev, status, err, page, platform, viewport, baseSize,
                   callerOpts, options, layers, baseEl, contStyle, inputX,
                   inputY, cal, raf, batch, lis, con, ticks>>
    /\ IF rev \in {"S1", "U3b", "S2", "T3"}
       THEN /\ transform' = IF rev = "S2" THEN handleMouseMoveWindow(cx, cy)
                            ELSE handleMouseMovePixel(cx, cy)
            /\ timers' = timers
            /\ hist' = [Step("mousemove") EXCEPT
                           !.runs = @ + 1, !.bursts = @ + 1, !.moves = 0,
                           !.last = <<cx, cy>>,
                           !.fired = "mouse", !.handled = "mouse",
                           !.ran = [x |-> cx, y |-> cy, after |-> 0, of |-> 1, span |-> 0,
                                    box |-> offsetBox(baseEl), cont |-> contStyle]]
       ELSE /\ transform' = transform
            /\ timers' = [timers EXCEPT !.mouse = debounce(@, cx, cy)]
            /\ hist' = [Step("mousemove") EXCEPT
                           !.bursts = IF hist.elapsed >= mouseWait THEN @ + 1 ELSE @,
                           !.moves = IF hist.elapsed >= mouseWait THEN 1 ELSE @ + 1,
                           !.span = IF hist.elapsed >= mouseWait THEN 0
                                    ELSE IF @ + hist.elapsed > MouseDelay THEN MouseDelay
                                    ELSE @ + hist.elapsed,
                           !.elapsed = 0,
                           !.fired = "mouse",
                           !.last = <<cx, cy>>]

\* the debounce timer expires: the deferred handleMouseMove runs
MouseTimerFire ==
    /\ Idle
    /\ timers.mouse.left = 0
    /\ timers' = [timers EXCEPT !.mouse = NoMouseTimer]
    /\ hist' = [Step("mousefire") EXCEPT
                   !.runs = @ + 1, !.moves = 0, !.handled = "mouse",
                   !.ran = [x |-> timers.mouse.x, y |-> timers.mouse.y,
                            after |-> hist.elapsed, of |-> hist.moves,
                            span |-> hist.span, box |-> offsetBox(baseEl),
                            cont |-> contStyle]]
    /\ UNCHANGED <<zIndex, observed, rev, status, err, page, platform, viewport, baseSize,
                   callerOpts, options, layers, baseEl, contStyle, cal,
                   batch, lis, con, budget, ticks>>
    /\ IF rev = "T2"
       THEN /\ transform' = handleMouseMovePixel(timers.mouse.x, timers.mouse.y)
            /\ UNCHANGED <<inputX, inputY, raf>>
       ELSE LET r == handleMouseMoveNorm(timers.mouse.x, timers.mouse.y)
            IN  /\ inputX' = r.x
                /\ inputY' = r.y
                /\ raf' = Append(raf, r.cb)
                /\ transform' = transform

\* the browser runs the callbacks of a frame one after the other; nothing
\* else runs until the frame is through
AnimationFrame ==
    /\ status = "running"
    /\ raf # << >>
    /\ LET cb == Head(raf)
           m  == callbackModifiers(cb)
       IN  transform' = applyLayerTransformations(m.x, m.y, cb.origin)
    /\ raf' = Tail(raf)
    /\ batch' = IF batch = 0 THEN Len(raf) - 1 ELSE batch - 1
    /\ hist' = Step("frame")
    /\ UNCHANGED <<zIndex, observed, rev, status, err, page, platform, viewport, baseSize,
                   callerOpts, options, layers, baseEl, contStyle, inputX,
                   inputY, cal, timers, lis, con, budget, ticks>>

\* the history after rotate of D2 was given the angles n times more
Fed(h, beta, gamma, n) ==
    IF rev # "D2" \/ beta.k = "null" \/ gamma.k = "null" THEN h
    ELSE [h EXCEPT !.quiet = 0,
                   !.raw = <<beta, gamma>>,
                   !.same = IF h.raw # <<beta, gamma>> THEN n
                            ELSE IF @ + n > calibrationThreshold
                                 THEN calibrationThreshold
                            ELSE @ + n]

\* the history after a handler ran for a sensor event of the given source
\* that had all its values
Sensed(h, source) == [h EXCEPT !.fired = source, !.handled = source]

\* a deviceorientation event with the given angles
DeviceOrientation(beta, gamma) ==
    /\ Idle
    /\ budget.samples > 0
    /\ lis.orient > 0
    /\ LET h == orientationListeners(lis.orient, Handled, beta, gamma)
       IN  /\ inputX' = h.ix
           /\ inputY' = h.iy
           /\ cal' = h.cal
           /\ raf' = h.raf
           /\ transform' = h.tr
    /\ budget' = [budget EXCEPT !.samples = @ - 1]
    /\ hist' = IF beta.k = "null" \/ gamma.k = "null"
                THEN [Step("orientation") EXCEPT !.sample = "null"]
                ELSE [Sensed(Fed(Step("orientation"), beta, gamma, 1), "gyro")
                         EXCEPT !.sample = "full"]
    /\ UNCHANGED <<zIndex, observed, rev, status, err, page, platform, viewport, baseSize,
                   callerOpts, options, layers, baseEl, contStyle, timers,
                   batch, lis, con, ticks>>

\* a devicemotion event with the given rotation rate
DeviceMotion(rate) ==
    /\ Idle
    /\ budget.samples > 0
    /\ lis.motion > 0
    /\ LET h == motionListeners(lis.motion, Handled, rate)
       IN  /\ inputX' = h.ix
           /\ inputY' = h.iy
           /\ cal' = h.cal
           /\ raf' = h.raf
           /\ transform' = h.tr
    /\ budget' = [budget EXCEPT !.samples = @ - 1]
    /\ hist' = IF ~rate.some \/ rate.beta.k = "null" \/ rate.gamma.k = "null"
                THEN [Step("motion") EXCEPT !.sample = "null"]
                ELSE [Sensed(Fed(Step("motion"), rate.beta, rate.gamma, 1), "motion")
                         EXCEPT !.sample = "full"]
    /\ UNCHANGED <<zIndex, observed, rev, status, err, page, platform, viewport, baseSize,
                   callerOpts, options, layers, baseEl, contStyle, timers,
                   batch, lis, con, ticks>>

\* n deviceorientation events with the same angles, one after the other:
\* each is handled to its end (its callback is in the queue) before the next
\* is dispatched
RECURSIVE orientationEvents(_, _, _, _)
orientationEvents(n, h, beta, gamma) ==
    IF n = 0 \/ Len(h.raf) < 0 THEN h
    ELSE orientationEvents(n - 1, orientationListeners(lis.orient, h, beta, gamma),
                           beta, gamma)

\* a stream of calibrationThreshold deviceorientation events, all with the
\* same angles, none of them null, and no frame in between
OrientationStream(beta, gamma) ==
    /\ Idle
    /\ budget.streams > 0
    /\ lis.orient > 0
    /\ beta.k # "null" /\ gamma.k # "null"
    /\ LET h == orientationEvents(calibrationThreshold, Handled, beta, gamma)
       IN  /\ inputX' = h.ix
           /\ inputY' = h.iy
           /\ cal' = h.cal
           /\ raf' = h.raf
           /\ transform' = h.tr
    /\ budget' = [budget EXCEPT !.streams = @ - 1]
    /\ hist' = [Sensed(Fed(Step("stream"), beta, gamma, calibrationThreshold), "gyro")
                   EXCEPT !.sample = "full"]
    /\ UNCHANGED <<zIndex, observed, rev, status, err, page, platform, viewport, baseSize,
                   callerOpts, options, layers, baseEl, contStyle, timers,
                   batch, lis, con, ticks>>

(***************************************************************************)
(* Gestures, the permission promise and the timers                         *)
(***************************************************************************)
State == [lis |-> lis, con |-> con, timers |-> timers]

\* the closures T2 registered on the document: each removes itself and
\* requests permission
RECURSIVE gestureClosures(_, _)
gestureClosures(n, st) ==
    IF n = 0 THEN st
    ELSE gestureClosures(n - 1,
             requestPermission([st EXCEPT !.lis.docGesture = @ - 1]))

\* the debounced attach function of D2 is called: its timer restarts
debouncedDeviceListener(st) == [st EXCEPT !.timers.device = deviceDebounce]

\* the document's click or touchend listeners run
documentGesture(st) ==
    IF st.lis.docDebounced THEN debouncedDeviceListener(st)
    ELSE gestureClosures(st.lis.docGesture, st)

\* the click listener of the trigger element runs, then the click bubbles
\* to the document
triggerClick(st) ==
    IF rev = "D2" THEN debouncedDeviceListener(st)
    ELSE documentGesture(attachDeviceOrientationListener(st))

Gesture(kind, st) ==
    /\ Idle
    /\ budget.gestures > 0
    /\ budget' = [budget EXCEPT !.gestures = @ - 1]
    /\ lis' = st.lis
    /\ con' = st.con
    /\ timers' = st.timers
    /\ hist' = [Step(kind) EXCEPT !.publics = IF kind = "public" THEN @ + 1 ELSE @]
    /\ UNCHANGED <<zIndex, observed, rev, status, err, page, platform, viewport, baseSize,
                   callerOpts, options, layers, baseEl, contStyle, transform,
                   inputX, inputY, cal, raf, batch, ticks>>

ClickDocument ==
    /\ lis.docGesture > 0 \/ lis.docDebounced
    /\ Gesture("click", documentGesture(State))

TouchEnd ==
    /\ lis.docGesture > 0 \/ lis.docDebounced
    /\ Gesture("touchend", documentGesture(State))

ClickTrigger ==
    /\ lis.trigClick
    /\ Gesture("trigger", triggerClick(State))

\* the page calls parallax.attachDeviceOrientationListener()
PublicAttach ==
    /\ rev \in {"T2", "T1", "U3a", "D2"}
    /\ Gesture("public", attachDeviceOrientationListener(State))

PermissionOutcomes == {"granted", "denied", "prompt", "rejected"}

\* a requestPermission promise settles and the awaiting function resumes
PermissionSettle(outcome) ==
    /\ Idle
    /\ lis.pending > 0
    /\ LET st == permissionSettled(State, outcome)
       IN  /\ lis' = st.lis
           /\ con' = st.con
           /\ timers' = st.timers
    /\ hist' = [Step("settle") EXCEPT !.outcome = outcome]
    /\ UNCHANGED <<zIndex, observed, rev, status, err, page, platform, viewport, baseSize,
                   callerOpts, options, layers, baseEl, contStyle, transform,
                   inputX, inputY, cal, raf, batch, budget, ticks>>

TimerStep(kind, st) ==
    /\ Idle
    /\ lis' = st.lis
    /\ con' = st.con
    /\ timers' = st.timers
    /\ hist' = Step(kind)
    /\ UNCHANGED <<zIndex, observed, rev, status, err, page, platform, viewport, baseSize,
                   callerOpts, options, layers, baseEl, contStyle, transform,
                   inputX, inputY, raf, batch, budget, ticks>>

\* the debounce timer of the attach function expires
DeviceTimerFire ==
    /\ timers.device = 0
    /\ TimerStep("devicefire",
           attachDeviceOrientationListener([State EXCEPT !.timers.device = NoTimer]))
    /\ cal' = cal

\* setTimeout(addOrientationAndMotionListeners, this.supportDelay) expires
SupportTimerFire ==
    /\ timers.support # << >>
    /\ Head(timers.support) = 0
    /\ TimerStep("supportfire", addListeners([State EXCEPT !.timers.support = Tail(@)]))
    /\ cal' = cal

\* onCalibrationTimer
CalibTimerFire ==
    /\ timers.calib = 0
    /\ TimerStep("calibfire", [State EXCEPT !.timers.calib = NoTimer])
    /\ cal' = [cal EXCEPT !.flag = TRUE]

(***************************************************************************)
(* Resizing                                                                *)
(***************************************************************************)
\* resizeDelayMS, windowResizeDebounce: 6
resizeDelayMS == 6

\* updateContainerAndLayers(baseWidth, baseHeight): the width and the height
\* the container's style is given
updateContainerAndLayers(baseWidth, baseHeight) == Box(baseWidth, baseHeight)

\* a callback that sizes the container by the window
resizeObserverCallbackWindow == updateContainerAndLayers(viewport.w, viewport.h)

\* new ResizeObserver(() => this.updateContainerAndLayers()): the arguments
\* default to the base element's offsetWidth and offsetHeight
resizeObserverCallback ==
    updateContainerAndLayers(offsetBox(baseEl).w, offsetBox(baseEl).h)

\* S1 and U3b register no resize listener on the window, S2 one that is
\* not debounced
hasResizeListener == rev \in {"T2", "T1", "U3a", "D2"}

\* the debounced resize listener of the window: T2 and T1 pass the window's
\* width alone, U3a and D2 its width and height
windowResized ==
    IF rev \in {"U3a", "D2"} THEN updateContainerAndLayers(viewport.w, viewport.h)
    ELSE updateContainerAndLayers(viewport.w, offsetBox(baseEl).h)

\* the page's layout gives the base element the box b
BaseResize(b) ==
    /\ Idle
    /\ budget.resizes > 0
    /\ baseEl # -1
    /\ b # baseSize
    /\ baseSize' = b
    /\ budget' = [budget EXCEPT !.resizes = @ - 1]
    /\ hist' = Step("baseresize")
    /\ UNCHANGED <<zIndex, observed, rev, status, err, page, platform, viewport,
                   callerOpts, options, layers, baseEl, contStyle, transform,
                   inputX, inputY, cal, timers, raf, batch, lis, con, ticks>>

\* the resize observer finds the box of the base element changed since its
\* last report (none yet: 0 by 0) and runs its callback
ResizeObserved ==
    /\ Idle
    /\ lis.observing
    /\ budget.reports > 0
    /\ observed # offsetBox(baseEl)
    /\ contStyle' = resizeObserverCallback
    /\ observed' = offsetBox(baseEl)
    /\ budget' = [budget EXCEPT !.reports = @ - 1]
    /\ hist' = Step("observe")
    /\ UNCHANGED <<zIndex, rev, status, err, page, platform, viewport, baseSize,
                   callerOpts, options, layers, baseEl, transform, inputX,
                   inputY, cal, timers, raf, batch, lis, con, ticks>>

\* the window is resized to v: the listener, where there is one, restarts
\* its debounce timer; the listener of S2 runs at once
WindowResize(v) ==
    /\ Idle
    /\ budget.resizes > 0
    /\ timers.resize # 0
    /\ v # viewport
    /\ viewport' = v
    /\ timers' = IF hasResizeListener THEN [timers EXCEPT !.resize = resizeDelayMS]
                 ELSE timers
    /\ budget' = [budget EXCEPT !.resizes = @ - 1]
    /\ hist' = Step("windowresize")
    /\ contStyle' = IF rev = "S2" THEN updateContainerHeight(baseEl) ELSE contStyle
    /\ UNCHANGED <<zIndex, observed, rev, status, err, page, platform, baseSize,
                   callerOpts, options, layers, baseEl, transform, inputX,
                   inputY, cal, raf, batch, lis, con, ticks>>

\* the debounce timer of the resize listener expires
ResizeTimerFire ==
    /\ Idle
    /\ timers.resize = 0
    /\ contStyle' = windowResized
    /\ timers' = [timers EXCEPT !.resize = NoTimer]
    /\ hist' = Step("resizefire")
    /\ UNCHANGED <<zIndex, observed, rev, status, err, page, platform, viewport,
                   baseSize, callerOpts, options, layers, baseEl, transform,
                   inputX, inputY, cal, raf, batch, lis, con, budget, ticks>>

(***************************************************************************)
(* The page edits its elements                                             *)
(***************************************************************************)
EditTexts == {"1", "absent"}

PageEdit(kind) ==
    /\ Idle
    /\ budget.edits > 0
    /\ budget' = [budget EXCEPT !.edits = @ - 1]
    /\ hist' = Step(kind)
    /\ UNCHANGED <<zIndex, observed, rev, status, err, platform, viewport, baseSize,
                   callerOpts, options, layers, baseEl, contStyle, inputX,
                   inputY, cal, timers, raf, batch, lis, con, ticks>>

\* a script of the page sets or removes the depth and the max-range
\* attribute of the i-th element of the container
SetAttributes(i, d, r) ==
    /\ i \in DOMAIN page.kids
    /\ <<d, r>> # <<page.kids[i].depth, page.kids[i].range>>
    /\ page' = [page EXCEPT !.kids[i].depth = d, !.kids[i].range = r]
    /\ transform' = transform
    /\ PageEdit("setattributes")

\* a script of the page appends an element with a depth attribute
AppendLayer ==
    /\ page' = [page EXCEPT !.kids = Append(@, Elem("1", "20", FALSE, FALSE))]
    /\ transform' = Append(transform, NoTransform)
    /\ PageEdit("appendlayer")

(***************************************************************************)
(* The clock                                                               *)
(***************************************************************************)
\* the milliseconds left on every pending timer
pendingTimers ==
    {t \in {timers.mouse.left, timers.device, timers.calib, timers.resize} :
        t # NoTimer}
        \cup {timers.support[i] : i \in DOMAIN timers.support}

Least(S) == CHOOSE m \in S : \A t \in S : m <= t

Less(t, d) == IF t = NoTimer THEN t ELSE t - d

\* d milliseconds pass with no timer coming due before their end
Elapse(kind, d) ==
    /\ Idle
    /\ pendingTimers # {}
    /\ \A t \in pendingTimers : t >= d
    /\ timers' = [mouse   |-> [timers.mouse EXCEPT !.left = Less(@, d)],
                  device  |-> Less(timers.device, d),
                  calib   |-> Less(timers.calib, d),
                  support |-> [i \in DOMAIN timers.support |-> timers.support[i] - d],
                  resize  |-> Less(timers.resize, d)]
    /\ hist' = [Step(kind) EXCEPT
                   !.elapsed = IF @ + d > MouseDelay THEN MouseDelay ELSE @ + d,
                   !.quiet = IF rev # "D2" THEN @
                             ELSE IF @ + d > calibrationDelay THEN calibrationDelay
                             ELSE @ + d]
    /\ UNCHANGED <<zIndex, observed, rev, status, err, page, platform, viewport, baseSize,
                   callerOpts, options, layers, baseEl, contStyle, transform,
                   inputX, inputY, cal, raf, batch, lis, con, budget>>

\* one millisecond passes
Tick ==
    /\ ticks > 0
    /\ ticks' = ticks - 1
    /\ Elapse("tick", 1)

\* the time to the next timer passes
Advance ==
    /\ pendingTimers # {}
    /\ Least(pendingTimers) > 0
    /\ ticks' = ticks
    /\ Elapse("advance", Least(pendingTimers))

\* calibrationDelay ms pass while no timer is pending
Rest ==
    /\ Idle
    /\ budget.rests > 0
    /\ pendingTimers = {}
    /\ budget' = [budget EXCEPT !.rests = @ - 1]
    /\ hist' = [Step("rest") EXCEPT
                   !.elapsed = MouseDelay,
                   !.quiet = IF rev # "D2" THEN @ ELSE calibrationDelay]
    /\ UNCHANGED <<zIndex, observed, rev, status, err, page, platform, viewport,
                   baseSize, callerOpts, options, layers, baseEl, contStyle,
                   transform, inputX, inputY, cal, timers, raf, batch, lis,
                   con, ticks>>

(***************************************************************************)
(* Bounds of the exploration                                               *)
(***************************************************************************)
MaxMoves == 2

MaxSamples == 2

MaxGestures == 2

MaxTicks == 2

MaxResizes == 2

MaxStreams == 1

MaxRests == 1

MaxEdits == 1

\* client positions of the pointer
MousePoints == {<<300, 150>>, <<1200, 100>>, <<0, 0>>}

\* beta and gamma of an orientation sample
Angles == {<<Null, Num(10)>>, <<Num(10), Null>>, <<Num(30), Num(-60)>>,
           <<Num(150), Num(5)>>}

Rates == {NoRate, Rate(Num(10), Null), Rate(Null, Num(10)), Rate(Num(30), Num(-60))}

Viewports == {Box(800, 400), Box(400, 800)}

BaseSizes == {Box(400, 200), Box(0, 0), Box(600, 300)}

\* moves, samples, gestures: input events; resizes: changes of the base
\* element's box or of the window; reports: resize observations; streams:
\* streams of equal orientation samples; rests: periods without any timer;
\* edits: changes the page's own scripts make to the container's elements
Budget(m, s, g) ==
    [moves |-> m, samples |-> s, gestures |-> g, resizes |-> 0, reports |-> 0,
     streams |-> 0, rests |-> 0, edits |-> 0]

\* the history: the kind of the last step; whether the last sensor sample
\* lacked an angle; how the last promise settled; the ms since the last
\* mousemove (up to MouseDelay); the mousemove events since the handler
\* last ran and the ms from the first to the last of them; the position
\* of the last mousemove; the runs of handleMouseMove so far; the bursts of
\* mousemove events so far, a burst ending when the wait passes with no
\* event; the calls of the public attach method; the angles of the last
\* sample D2's rotate was given, how many times in a row it was given them
\* (up to calibrationThreshold) and the ms since then or, before the first
\* sample, since the page was loaded (up to calibrationDelay); the source
\* of the last input event with all its values that was dispatched and the
\* source of the last one a handler ran for; and of the last run of
\* handleMouseMove, its position, the ms since the last event, the events
\* and the span of its burst, and the boxes the base element and the
\* container had when it ran
NoHistory ==
    [step |-> "load", sample |-> "none", outcome |-> "none", elapsed |-> MouseDelay,
     moves |-> 0, span |-> 0, last |-> <<0, 0>>, runs |-> 0, bursts |-> 0,
     publics |-> 0, raw |-> <<Null, Null>>, same |-> 0, quiet |-> 0,
     fired |-> "none", handled |-> "none",
     ran |-> [x |-> 0, y |-> 0, after |-> 0, of |-> 0, span |-> 0,
              box |-> Box(0, 0), cont |-> Box(0, 0)]]

\* every revision against every page
ConstructionRuns ==
    /\ rev \in Revs
    /\ page \in Pages
    /\ platform = "none"
    /\ viewport = Box(800, 400)
    /\ baseSize = Box(400, 200)
    /\ callerOpts = NoOpts
    /\ budget = Budget(1, 0, 0)
    /\ ticks = 0

\* viewport, base box and caller's options of the transform runs
Setups ==
    {<<Box(800, 400), Box(400, 200), NoOpts>>,
     <<Box(800, 400), Box(400, 200), CustomOpts>>,
     <<Box(400, 800), Box(400, 200), NoOpts>>,
     <<Box(800, 400), Box(0, 0), NoOpts>>}

\* the transform pipeline under pointer input
PointerRuns ==
    /\ rev \in Revs
    /\ page \in LayerPages
    /\ platform = "none"
    /\ \E s \in Setups : viewport = s[1] /\ baseSize = s[2] /\ callerOpts = s[3]
    /\ budget = Budget(MaxMoves, 0, 0)
    /\ ticks = MaxTicks

\* the transform pipeline under sensor input
SensorRuns ==
    /\ rev \in {"T2", "T1", "U3a", "D2"}
    /\ page \in LayerPages
    /\ platform = "plain"
    /\ \E s \in Setups : viewport = s[1] /\ baseSize = s[2] /\ callerOpts = s[3]
    /\ budget = Budget(1, MaxSamples, 1)
    /\ ticks = 0

\* the permission flow
PermissionRuns ==
    /\ rev \in {"T2", "T1", "U3a", "D2"}
    /\ page \in {ScenarioPage, ButtonPage}
    /\ platform \in Platforms
    /\ viewport = Box(800, 400)
    /\ baseSize = Box(400, 200)
    /\ callerOpts = NoOpts
    /\ budget = Budget(1, 1, MaxGestures)
    /\ ticks = 0

\* the base element and the window change size
ResizeRuns ==
    /\ rev \in Revs
    /\ page \in {ScenarioPage, MonoPage, EmptyPage}
    /\ platform = "none"
    /\ viewport = Box(800, 400)
    /\ baseSize = Box(400, 200)
    /\ callerOpts = NoOpts
    /\ budget = [Budget(1, 0, 0) EXCEPT !.resizes = MaxResizes,
                                        !.reports = MaxResizes + 1]
    /\ ticks = 0

\* the calibration of D2 under a stream of equal samples
CalibrationRuns ==
    /\ rev = "D2"
    /\ page = ScenarioPage
    /\ platform = "plain"
    /\ viewport \in Viewports
    /\ baseSize = Box(400, 200)
    /\ callerOpts = NoOpts
    /\ budget = [Budget(0, 1, 1) EXCEPT !.streams = MaxStreams, !.rests = MaxRests]
    /\ ticks = 0

\* the window is turned between the samples of D2
TurnRuns ==
    /\ rev = "D2"
    /\ page = ScenarioPage
    /\ platform = "plain"
    /\ viewport \in Viewports
    /\ baseSize = Box(400, 200)
    /\ callerOpts = NoOpts
    /\ budget = [Budget(0, MaxSamples, 1) EXCEPT !.resizes = 1]
    /\ ticks = 0

\* the page changes its elements after construction
EditRuns ==
    /\ rev \in Revs \cup {"T3"}
    /\ page \in {ScenarioPage, OddPage, EmptyPage}
    /\ platform = "none"
    /\ viewport = Box(800, 400)
    /\ baseSize = Box(400, 200)
    /\ callerOpts \in {NoOpts, CustomOpts}
    /\ budget = [Budget(1, 0, 0) EXCEPT !.edits = MaxEdits]
    /\ ticks = 0

\* the class that orders the children by depth
StackingRuns ==
    /\ rev = "S2"
    /\ page \in Pages \ {OddPage}
    /\ platform = "none"
    /\ viewport = Box(800, 400)
    /\ baseSize = Box(400, 200)
    /\ callerOpts = NoOpts
    /\ budget = [Budget(MaxMoves, 0, 0) EXCEPT !.resizes = 1]
    /\ ticks = 0

Init ==
    /\ status = "new"
    /\ err = "none"
    /\ options = NoOpts
    /\ layers = << >>
    /\ baseEl = 0
    /\ contStyle = Box(0, 0)
    /\ transform = << >>
    /\ zIndex = << >>
    /\ inputX = Num(0)
    /\ inputY = Num(0)
    /\ cal = NoCal
    /\ timers = NoTimers
    /\ raf = << >>
    /\ batch = 0
    /\ lis = NoListeners
    /\ observed = Box(0, 0)
    /\ con = << >>
    /\ hist = NoHistory
    /\ ConstructionRuns \/ PointerRuns \/ SensorRuns \/ PermissionRuns \/ ResizeRuns
           \/ CalibrationRuns \/ StackingRuns \/ TurnRuns \/ EditRuns

Next ==
    \/ Construct
    \/ ConstructStack
    \/ \E p \in MousePoints : MouseMove(p[1], p[2])
    \/ MouseTimerFire
    \/ AnimationFrame
    \/ \E a \in Angles : DeviceOrientation(a[1], a[2])
    \/ \E r \in Rates : DeviceMotion(r)
    \/ \E a \in Angles : OrientationStream(a[1], a[2])
    \/ ClickDocument
    \/ TouchEnd
    \/ ClickTrigger
    \/ PublicAttach
    \/ \E o \in PermissionOutcomes : PermissionSettle(o)
    \/ DeviceTimerFire
    \/ SupportTimerFire
    \/ CalibTimerFire
    \/ \E b \in BaseSizes : BaseResize(b)
    \/ ResizeObserved
    \/ \E v \in Viewports : WindowResize(v)
    \/ ResizeTimerFire
    \/ \E i \in 1..2, d, r \in EditTexts : SetAttributes(i, d, r)
    \/ AppendLayer
    \/ Tick
    \/ Advance
    \/ Rest

Spec == Init /\ [][Next]_vars

(***************************************************************************)
(* Properties                                                              *)
(***************************************************************************)
\* the translation last written to the element of layer l
written(l) == transform[l.el]

Layers == IF status = "running" THEN {layers[k] : k \in 1..Len(layers)} ELSE {}

\* |v| <= maxRange
Within(v, maxRange) == JLe(JAbs(v), maxRange)

\* C1: whatever pointer, orientation and motion events and repaint
\* callbacks have run, the X and the Y translation written to a layer are
\* each at most the layer's maxRange in absolute value.
ClampingInvariant ==
    \A l \in Layers :
        written(l) # NoTransform =>
            /\ Within(written(l).x, maxRangeOf(l))
            /\ Within(written(l).y, maxRangeOf(l))

Origin == Translate(Num(0), Num(0))

\* C2: a layer of depth 0 never moves: whatever pass wrote its transform,
\* from whatever source and input and with whatever maxRange, wrote (0, 0).
ZeroDepthStill ==
    \A l \in Layers :
        (depthOf(l) = Num(0) /\ written(l) # NoTransform) => written(l) = Origin

Debounced == rev \in {"T2", "T1", "U3a", "D2"}

MousePending == timers.mouse.left # NoTimer

\* the handler has run once for every burst that is over
OncePerBurst ==
    hist.runs = hist.bursts - (IF MousePending THEN 1 ELSE 0)

\* a mousemove event only restarts the timer: no handler runs, no pass
EventDeferred ==
    /\ timers'.mouse = [left |-> mouseWait, x |-> hist'.last[1], y |-> hist'.last[2]]
    /\ hist'.runs = hist.runs
    /\ UNCHANGED <<inputX, inputY, raf, transform>>

\* the timer runs the handler with the last event, the wait after it, and
\* one pass follows: written at once in T2, queued for the next frame else
LastEventHandled ==
    /\ hist'.ran.x = hist.last[1] /\ hist'.ran.y = hist.last[2]
    /\ hist'.ran.after = mouseWait
    /\ hist'.ran.of = hist.moves
    /\ timers'.mouse = NoMouseTimer
    /\ IF rev = "T2"
       THEN /\ transform' = handleMouseMovePixel(hist.last[1], hist.last[2])
            /\ raf' = raf
       ELSE /\ inputX' = handleMouseMoveNorm(hist.last[1], hist.last[2]).x
            /\ inputY' = handleMouseMoveNorm(hist.last[1], hist.last[2]).y
            /\ Len(raf') = Len(raf) + 1
            /\ raf'[Len(raf')].origin = "mouse"
            /\ transform' = transform

\* C3: of N >= 1 mousemove events each less than the debounce delay after
\* the one before, only the last is handled: the handler runs once, the
\* delay after the last event, with the last event's position, one
\* transform pass results, and the invocations pending before are cancelled.
PointerDebounce ==
    [][Debounced =>
          /\ OncePerBurst'
          /\ hist'.step = "mousemove" => EventDeferred
          /\ hist'.step = "mousefire" => LastEventHandled]_vars

\* the handler has just run for a burst of several events at different
\* positions that took some milliseconds
BurstHandled ==
    /\ Debounced
    /\ hist.step = "mousefire"
    /\ hist.ran.of >= 2
    /\ hist.ran.span >= 1
    /\ hist.runs = 1

\* C4: construction throws when the document has no element of the given
\* id, and only then: with the container there, whatever it holds,
\* construction completes.
ThrowsOnlyWithoutContainer ==
    status # "new" => (status = "thrown" <=> ~page.container)

\* what findBaseElement is to leave behind for the elements kids
BaseResolved(kids) ==
    IF markedBase(kids) # 0
    THEN /\ baseEl' = markedBase(kids)
         /\ page' = page
    ELSE IF Len(kids) > 0
    THEN /\ baseEl' = 1
         /\ page' = page
         /\ \E i \in DOMAIN con' : con'[i] = NoBaseMsg
    ELSE /\ baseEl' = 1
         /\ page'.kids = <<FallbackDiv>>
         /\ \E i \in DOMAIN con' : con'[i] = NoBaseMsg
         /\ \E i \in DOMAIN con' : con'[i] = NoChildMsg

\* C5: the base element is the element with the base-dimensions marker,
\* the DOM untouched; else the first child, with a diagnostic logged; else
\* a new empty element appended to the container, with a second diagnostic
\* logged.  In every case it is an element inside the container.
BaseResolution ==
    [][(status = "new" /\ page.container) =>
          /\ BaseResolved(page.kids)
          /\ baseEl' \in 1..Len(page'.kids)]_vars

\* C6: an orientation event with beta or gamma null, and a motion event
\* with no rotationRate or with its beta or gamma null, is ignored: nothing
\* is thrown, inputX, inputY and the calibration stay as they were, and no
\* transform pass is scheduled or made.
NullSampleIgnored ==
    [][hist'.sample = "null" =>
          /\ UNCHANGED <<inputX, inputY, cal, raf, transform, timers>>
          /\ status' = "running"]_vars

\* a sample without an angle has come in after a full one was handled
NullSampleSeen ==
    /\ hist.sample = "null"
    /\ lis.orient > 0
    /\ inputX # Num(0)

Logged(msg) == \E i \in DOMAIN con : con[i] = msg

\* an attachment attempt that ran to its platform test in this step
AttachRan ==
    \/ hist'.step \in {"public", "devicefire"}
    \/ hist'.step = "trigger" /\ rev # "D2"

\* C7: when the permission request resolves to anything but 'granted', or
\* rejects, or the platform supports no orientation or motion events, no
\* orientation or motion listener is attached, the failure is logged,
\* nothing is thrown, and the mousemove listener stays in place.
RefusalIsQuiet ==
    [][/\ (hist'.step = "settle" /\ hist'.outcome # "granted") =>
             /\ lis'.orient = lis.orient /\ lis'.motion = lis.motion
             /\ timers'.support = timers.support
             /\ con' = Append(con, IF hist'.outcome = "rejected"
                                   THEN RejectedMsg ELSE DeniedMsg)
             /\ status' = "running"
             /\ lis'.mouse = lis.mouse /\ lis'.mouse # "none"
       /\ (platform = "none" /\ status' = "running") =>
             /\ lis'.orient = 0 /\ lis'.motion = 0 /\ timers'.support = << >>
             /\ lis'.mouse # "none"
             /\ AttachRan => con' = Append(con, UnsupportedMsg)]_vars

\* after a refusal was logged a mousemove has been handled and its pass made
PointerAfterRefusal ==
    /\ Logged(DeniedMsg) \/ Logged(RejectedMsg)
    /\ lis.orient = 0 /\ lis.motion = 0
    /\ hist.step \in {"mousefire", "frame"}
    /\ \E l \in Layers : written(l) # NoTransform /\ written(l) # Origin

\* C8: on a platform that asks for consent, whatever clicks and touchends
\* reach the document or the trigger element, requestPermission is called
\* at most once.
OnePrompt == hist.publics = 0 => lis.calls <= 1

\* the depth and the max range the page gives the layer
configuredDepth(l) == parseFloat(attrOrZero(page.kids[l.el].depth))

configuredRange(l) == parseFloat(attrOrZero(page.kids[l.el].range))

\* a translation strictly inside the range has not been clamped; T1 and S2
\* clamp nothing
NotClamped(v, l) == rev \in {"T1", "S2"} \/ JLt(JAbs(v), configuredRange(l))

\* the layers a and b, the second of the greater depth, have the same max
\* range and both carry a translation
Comparable(a, b) ==
    /\ JLt(configuredDepth(a), configuredDepth(b))
    /\ configuredRange(a) = configuredRange(b)
    /\ written(a) # NoTransform /\ written(b) # NoTransform

\* unless one was clamped, q is at least p in absolute value
NoLess(p, q, a, b) ==
    (NotClamped(p, a) /\ NotClamped(q, b)) => JLe(JAbs(p), JAbs(q))

MonotoneIn(a, b) ==
    /\ NoLess(written(a).x, written(b).x, a, b)
    /\ NoLess(written(a).y, written(b).y, a, b)

configuredSmoothing ==
    IF rev = "T2" /\ callerOpts.smoothingFactor.k # "undef"
    THEN callerOpts.smoothingFactor ELSE DefaultSmoothing

\* translate(clamp(dx*d*s, -r, r), clamp(dy*d*s, -r, r)) for the pointer at
\* client position (cx, cy)
PixelFormula(cx, cy, l) ==
    LET dx == JSub(Num(cx), Fin(contStyle.w, 2))
        dy == JSub(Num(cy), Fin(contStyle.h, 2))
        d  == configuredDepth(l)
        r  == configuredRange(l)
    IN  Translate(clamp(JMul(JMul(dx, d), configuredSmoothing), r),
                  clamp(JMul(JMul(dy, d), configuredSmoothing), r))

\* the page gives the layer both a depth and a max range
Configured(l) ==
    page.kids[l.el].depth # "absent" /\ page.kids[l.el].range # "absent"

PixelHandlerRan ==
    \/ rev = "T2" /\ hist.step = "mousefire"
    \/ rev \in {"S1", "U3b"} /\ hist.step = "mousemove"

\* C10: in the pixel-space mouse design, for the pointer (dx, dy) off the
\* container's centre, a layer of depth d and range r and the configured
\* smoothing factor s, the transform written is translate(clamp(dx*d*s, -r,
\* r), clamp(dy*d*s, -r, r)); with d = 0.5, r = 20 and s = 0.13 that is
\* (6.5, 3.25) for (100, 50) and an X of exactly 20 for dx = 1000.
PixelTransform ==
    PixelHandlerRan =>
        \A l \in Layers :
            LET t == PixelFormula(hist.ran.x, hist.ran.y, l)
            IN  /\ (Configured(l) /\ t.x.k = "fin" /\ t.y.k = "fin") => written(l) = t
                /\ (page = ScenarioPage /\ contStyle = Box(400, 200)
                      /\ configuredSmoothing = DefaultSmoothing) =>
                      /\ hist.last = <<300, 150>> =>
                             written(l) = Translate(Fin(13, 2), Fin(13, 4))
                      /\ hist.last = <<1200, 100>> => written(l).x = Num(20)

\* C11: whenever the offset width or height of the base element has
\* changed, the next callback of the resize observer sets the width and the
\* height of the container's style to the base element's offset width and
\* height of that moment.
ResizePropagation ==
    [][hist'.step = "observe" =>
          /\ observed # offsetBox(baseEl)
          /\ contStyle' = offsetBox(baseEl)']_vars

\* the observer has reported a box the base element did not have at
\* construction, and the container has it
ResizePropagated ==
    /\ hist.step = "observe"
    /\ baseEl >= 1
    /\ baseSize = Box(600, 300)
    /\ contStyle = baseSize

\* the sample rotate of D2 was given last, by the axes of the screen
remapped ==
    IF viewport.h > viewport.w THEN [x |-> hist.raw[2], y |-> hist.raw[1]]
    ELSE [x |-> hist.raw[1], y |-> hist.raw[2]]

\* C12: once the calibration has been fed the same beta and gamma
\* calibrationThreshold times or more in a row, the calibration offset is
\* the mean of those samples, which is the sample itself, and the
\* calibrated input, (sample - offset) / sensitivity, is zero for that
\* sample and every later one of the stream.
CalibrationConverges ==
    (rev = "D2" /\ hist.same >= calibrationThreshold) =>
        /\ cal.x = remapped.x /\ cal.y = remapped.y
        /\ inputX = Num(0) /\ inputY = Num(0)

\* the number an attribute's text stands for: its floating-point value, 0
\* where the attribute is missing or its text is no number
numberOrZero(text) ==
    IF text = "absent" \/ parseFloat(text) = NaN THEN Num(0) ELSE parseFloat(text)

\* C13: for every layer, depth and maxRange are the floating-point values
\* of the depth and the max-range attribute, and each is 0 when the
\* attribute is missing or its text cannot be parsed as a number.
LayerAttributesParsed ==
    \A l \in Layers :
        /\ depthOf(l) = numberOrZero(page.kids[l.el].depth)
        /\ maxRangeOf(l) = numberOrZero(page.kids[l.el].range)

\* C14: no operation of the controller, be it construction, an input
\* handler, a repaint callback or the handling of a resize, writes any
\* state of the page but the transform of a layer's style and the width and
\* the height of the container's style: the elements of the page and
\* every other style property stay as they were.
OutputContract == [][page' = page /\ zIndex' = zIndex]_vars

\* the revisions whose constructor takes an options object
Optioned == rev \in {"T2", "T1", "U3a", "D2"}

\* the caller's value of an option, the default where the caller gave none
Given(x, default) == IF x.k = "undef" THEN default ELSE x

\* the factors the handlers multiply by
smoothingUsed == IF rev = "T2" THEN pixelSmoothing ELSE handleMouseMoveNorm(0, 0).cb.m

gyroUsed ==
    IF rev = "T2" THEN OrElse(options.gyroEffectModifier, Num(10)) ELSE gyroModifier

\* C15: an option the caller supplies (smoothingFactor, gyroEffectModifier,
\* sensitivity, a debounce interval) is the value the controller uses, and
\* one the caller omits takes its default: 0.13, 10, the viewport's width /
\* height * 10, and 6 ms.
OptionResolution ==
    [][(status = "new" /\ status' = "running" /\ Optioned) =>
          /\ smoothingUsed' = Given(callerOpts.smoothingFactor, DefaultSmoothing)
          /\ gyroUsed' = Given(callerOpts.gyroEffectModifier, DefaultGyro)
          /\ rev # "T2" =>
                 sensitivity' = Given(callerOpts.sensitivity, computeSensitivity)
          /\ mouseWait' = IF rev \in {"U3a", "D2"}
                          THEN Millis(Given(callerOpts.mouseDebounce, Num(MouseDelay)))
                          ELSE MouseDelay]_vars

\* the modifier of a source: its configured modifier times its damping
sourceModifier(origin) ==
    JMul(IF origin = "mouse" THEN options.smoothingFactor ELSE gyroModifier,
         IF origin = "mouse" THEN Num(1)
         ELSE IF origin = "gyro" THEN Fin(1, 10) ELSE Fin(1, 20))

\* clamp(input * depth * modifier * axisCenter, -maxRange, +maxRange) on
\* each axis, the centre being half the box of the base element
UnifiedFormula(l, origin) ==
    LET centerX == Fin(offsetBox(baseEl).w, 2)
        centerY == Fin(offsetBox(baseEl).h, 2)
        m == sourceModifier(origin)
    IN  Translate(clamp(JMul(JMul(JMul(inputX, l.depth), m), centerX), l.maxRange),
                  clamp(JMul(JMul(JMul(inputY, l.depth), m), centerY), l.maxRange))

\* C16: in every transform pass of the design with one formula for all
\* sources, the translation written to every layer is, on each axis,
\* clamp(input * depth * modifier * axisCenter, -maxRange, +maxRange) with
\* the current inputX, inputY, half the base element's width and height,
\* and as modifier smoothingFactor for the mouse, gyroEffectModifier * 0.1
\* for orientation and gyroEffectModifier * 0.05 for motion.
UnifiedTransform ==
    [][(hist'.step = "frame" /\ rev \in {"U3a", "D2"}) =>
          \A k \in DOMAIN layers :
              LET t == UnifiedFormula(layers[k], Head(raf).origin)
              IN  (t.x.k = "fin" /\ t.y.k = "fin") => transform'[layers[k].el] = t]_vars

\* C17: no handler of an input event, pointer, orientation or motion,
\* writes a layer's transform itself: every write of a transform happens
\* in a requestAnimationFrame callback.
WritesOnlyInFrames ==
    [][(status = "running" /\ transform' # transform) => hist'.step = "frame"]_vars

\* C18: at most one pass over the layers runs in a display frame: however
\* many input events were handled since the last repaint, the frame has no
\* second callback to run once the first has made its pass.
OnePassPerFrame == batch = 0

\* C19: for every orientation or motion sample with both angles, the
\* calibration offset of that moment is subtracted from the sample, remapped
\* to the axes of the screen, before the difference is divided by the
\* sensitivity and stored as inputX and inputY.
CalibrationSubtracted ==
    [][(rev = "D2" /\ hist'.sample = "full") =>
          /\ inputX' = JDiv(JSub(remapped'.x, cal'.x), sensitivity)
          /\ inputY' = JDiv(JSub(remapped'.y, cal'.y), sensitivity)]_vars

\* C20: whenever calibrationDelay ms have passed since the last sample
\* with no further sample, and the timer has run, the calibration flag is
\* true, after the first quiet period and after every later one; and a
\* sample with both angles that finds the flag true becomes the new
\* anchor and clears the flag.
DebouncedRecalibration ==
    [][rev = "D2" =>
          /\ (status' = "running" /\ hist'.quiet >= calibrationDelay
                 /\ timers'.calib = NoTimer) => cal'.flag
          /\ (hist'.sample = "full" /\ cal.flag) =>
                 cal' = [flag |-> FALSE, x |-> remapped'.x, y |-> remapped'.y]]_vars

\* v is the sample s on one axis of the screen, as it is or less the anchor
\* c of that axis, over the sensitivity
CalibratedFrom(v, s, c) ==
    v = JDiv(s, sensitivity) \/ v = JDiv(JSub(s, c), sensitivity)

\* C21: the angles are turned to the axes of the screen (portrait: X from
\* gamma, Y from beta; landscape: X from beta, Y from gamma) before the
\* calibration: the anchor a sample leaves is that sample on the screen's
\* axes, and inputX comes of the sample's screen X and the anchor's X,
\* inputY of its screen Y and the anchor's Y, whatever samples and turns of
\* the viewport came before.
RemapBeforeCalibration ==
    [][(rev = "D2" /\ hist'.sample = "full") =>
          /\ cal.flag => (cal'.x = remapped'.x /\ cal'.y = remapped'.y)
          /\ ~cal.flag => cal' = cal
          /\ CalibratedFrom(inputX', remapped'.x, cal'.x)
          /\ CalibratedFrom(inputY', remapped'.y, cal'.y)]_vars

\* the window was turned to portrait after the anchor was taken in
\* landscape, and the anchor's Y has been subtracted from a later sample's
\* screen Y
AnchorSubtractedAfterTurn ==
    /\ rev = "D2"
    /\ hist.sample = "full"
    /\ viewport.h > viewport.w
    /\ cal = [flag |-> FALSE, x |-> Num(30), y |-> Num(-60)]
    /\ remapped.y = Num(150)
    /\ inputY = JDiv(Num(210), sensitivity)

\* every debounce timer of an input and every repaint callback has run
Quiescent ==
    /\ status = "running"
    /\ timers.mouse.left = NoTimer
    /\ raf = << >>
    /\ batch = 0

\* the transforms a pass of the given source's callback leaves with the
\* inputX and inputY of this moment
passOf(source) ==
    LET cb == Callback(source, IF source = "mouse" THEN handleMouseMoveNorm(0, 0).cb.m
                               ELSE gyroModifier)
        m  == callbackModifiers(cb)
    IN  applyLayerTransformations(m.x, m.y, source)

\* the last step ran a handler or a repaint callback
InputStep ==
    /\ hist.step \in {"mousemove", "mousefire", "orientation", "motion", "stream",
                      "frame"}
    /\ hist.sample # "null"

\* the transforms are those of the given source's last event
DerivedFrom(source) ==
    IF rev \in {"T1", "U3a", "D2"} THEN transform = passOf(source)
    ELSE (rev = "T2" /\ source = "mouse") =>
             transform = handleMouseMovePixel(hist.ran.x, hist.ran.y)

SourceConsistentPass ==
    [][hist'.step = "frame" => Head(raf).origin = hist.handled]_vars

\* C24: the parameters of the layers are parsed once, at construction,
\* and kept: when a layer's depth or max-range attribute is changed
\* afterwards, or an element with a depth attribute is added to the
\* container, the set of layers and the depth and maxRange a transform pass
\* uses for each of them stay what they were.
ParametersCached ==
    [][status = "running" =>
          /\ layers' = layers
          /\ \A k \in DOMAIN layers :
                 /\ depthOf(layers[k])' = depthOf(layers[k])
                 /\ maxRangeOf(layers[k])' = maxRangeOf(layers[k])]_vars

\* a gesture listener that leads to the permission request is registered:
\* on the trigger element where the page has one, else on the document
GestureListener(l, kids) ==
    IF hasTrigger(kids) THEN l.trigClick ELSE l.docGesture > 0 \/ l.docDebounced

\* C25: where DeviceOrientationEvent.requestPermission exists, construction
\* does not call it; it registers a click or touch listener, on the trigger
\* element if the page has one and on the document otherwise, and the first
\* call of requestPermission is made when that gesture comes (in D2, by the
\* debounce timer the gesture starts).
PermissionGated ==
    [][(platform = "perm" /\ rev \in {"T2", "T1", "D2"}) =>
          /\ (status = "new" /\ status' = "running") =>
                 /\ lis'.calls = 0
                 /\ GestureListener(lis', page'.kids)
          /\ (hist'.publics = 0 /\ lis.calls = 0 /\ lis'.calls > 0) =>
                 hist'.step \in {"click", "touchend", "trigger", "devicefire"}]_vars

\* C26: each source of input (pointer, device orientation, device motion,
\* window resize) is debounced by itself: an event only restarts the timer
\* of its own source, replacing the callback that was pending, its handler
\* runs from that timer, at most once per quiet period, and the pending
\* timers of the other sources are left alone.
PerSourceDebounce ==
    [][Debounced =>
          /\ hist'.step = "mousemove" =>
                 /\ EventDeferred
                 /\ timers'.resize = timers.resize /\ timers'.device = timers.device
          /\ hist'.step = "windowresize" =>
                 /\ timers'.resize = resizeDelayMS
                 /\ contStyle' = contStyle
                 /\ timers'.mouse = timers.mouse /\ timers'.device = timers.device
          /\ hist'.sample = "full" =>
                 /\ UNCHANGED <<inputX, inputY, cal, raf, transform>>
                 /\ timers'.mouse = timers.mouse
                 /\ timers'.resize = timers.resize]_vars

\* C27: whatever clicks, touchends and calls of the public
\* attachDeviceOrientationListener method there have been, the window has at
\* most one deviceorientation handler and at most one devicemotion handler
\* of the controller, so that a sample is processed, and a pass scheduled
\* for it, at most once.
OneSensorHandler == lis.orient <= 1 /\ lis.motion <= 1

\* C28: the calibration anchor is taken from device-orientation samples
\* only: a devicemotion sample of rotation rates, also one that arrives
\* while the calibration flag is true, leaves the flag, calibrationX and
\* calibrationY as they are.
AnchorFromOrientationOnly ==
    [][(rev = "D2" /\ hist'.step = "motion") => cal' = cal]_vars

\* C30: a construction that throws because the container is missing leaves
\* nothing behind: no listener, no timer and no resize observer is
\* registered, the DOM is as it was, and so is the options object of the
\* caller.
FailedConstructionClean ==
    [][(status = "new" /\ ~page.container) =>
          /\ status' = "thrown"
          /\ lis' = NoListeners
          /\ timers' = NoTimers
          /\ page' = page
          /\ callerOpts' = callerOpts]_vars

\* the translation of the pixel-space design for the pointer event the
\* handler ran for last: clamp(dx * depth * smoothingFactor, -maxRange,
\* maxRange) on each axis, dx and dy being the pointer's offset from the
\* centre of the container at that time
PixelDesign(l) ==
    LET dx == JSub(Num(hist.ran.x), Fin(hist.ran.cont.w, 2))
        dy == JSub(Num(hist.ran.y), Fin(hist.ran.cont.h, 2))
        s  == options.smoothingFactor
    IN  Translate(clamp(JMul(JMul(dx, depthOf(l)), s), maxRangeOf(l)),
                  clamp(JMul(JMul(dy, depthOf(l)), s), maxRangeOf(l)))

\* a repaint callback of the normalized design runs for a pointer event
\* that found the base element and the container with the same box, not
\* empty
NormalizedPointerPass ==
    /\ rev \in {"U3a", "D2"}
    /\ status = "running"
    /\ raf # << >>
    /\ Head(raf).origin = "mouse"
    /\ hist.handled = "mouse"
    /\ hist.ran.box = hist.ran.cont
    /\ hist.ran.box.w > 0 /\ hist.ran.box.h > 0

\* the pass writes what the pixel-space design writes
AgreesWithPixelDesign ==
    \A k \in DOMAIN layers :
        LET t == PixelDesign(layers[k])
        IN  (t.x.k = "fin" /\ t.y.k = "fin") => transform'[layers[k].el] = t

\* C29 as stated: for pointer input the two designs agree: where the base
\* element and the container have the same box, not empty, inputX = dx /
\* centerX followed in the repaint callback by clamp(inputX * depth *
\* smoothingFactor * centerX) gives every layer the translation clamp(dx *
\* depth * smoothingFactor) of the pixel-space design, also when the base
\* element is resized between the pointer event and the callback.
DesignsAgree ==
    [][(hist'.step = "frame" /\ NormalizedPointerPass) => AgreesWithPixelDesign]_vars

\* C29, amended: they agree when the base element has, at the callback, the
\* box it had when the pointer event was handled.
DesignsAgreeUnresized ==
    [][(hist'.step = "frame" /\ NormalizedPointerPass
          /\ offsetBox(baseEl) = hist.ran.box) => AgreesWithPixelDesign]_vars

\* a pass of the normalized design has written the (6.5, 3.25) of the
\* pixel-space design for the pointer 100 right of and 50 below the centre
PixelResultByNormalizedPass ==
    /\ rev \in {"U3a", "D2"}
    /\ hist.step = "frame"
    /\ hist.handled = "mouse"
    /\ hist.ran.x = 300 /\ hist.ran.y = 150
    /\ hist.ran.box = Box(400, 200)
    /\ \E l \in Layers : written(l) = Translate(Fin(13, 2), Fin(13, 4))

====
